---- MODULE Spec2Model ----
(***************************************************************************)
(* Plumbing++ : the bounded blocking Pipe<T>, its Sink<T> iterator view    *)
(* and the connect() pipeline builder (plumbing.hpp), driven by the        *)
(* programs of the test driver (pipe usage test, testSplitting, connect    *)
(* test).                                                                  *)
(*                                                                         *)
(* Every Pipe method takes std::unique_lock on mutex_ at entry and holds   *)
(* it until it returns or until condition_variable::wait releases it, so   *)
(* each stretch of a method between two such points is one atomic step.    *)
(* A thread inside wait() is a member of the condition variable's set; a   *)
(* notify (or a spurious wake-up) takes it out and its next step re-runs   *)
(* the while test of the method it is in.                                  *)
(***************************************************************************)
EXTENDS Integers, Sequences, FiniteSets, TLC

\* ---- bounds of the model ----
MaxN == 2          \* longest source sequence
MaxCap == 3        \* largest fifoSize of the test pipe
MaxLate == 2       \* enqueue() calls the producer makes after close()

\* ---- program constants ----
DefaultFifoSize == 2   \* new Pipe<Output>(2) in connect_impl
MinFifoSize == 2       \* assert (fifoSize >= 2)

Pipes == {1, 2}
NullPipe == 0                              \* Sink() : pipe_(nullptr)
Threads == {"main", "a", "b", "w1", "w2"}
Scenarios == {"pipe", "late", "connect", "void", "abandon"}

LateValue == 9     \* the value enqueued after close(), unlike every source value

Values == {1, 5}                           \* the ints fed to a test pipe / pipeline
NUL == "nul"                               \* the char s[0] of an empty std::string
Words == {<<>>, <<"H", "i">>}              \* std::string as a sequence of chars

\* a boost::optional<T> is a sequence of length <= 1: <<>> is boost::none
None == <<>>
Some(v) == <<v>>

RECURSIVE SeqsUpTo(_, _)
SeqsUpTo(S, n) ==
    IF n = 0 THEN {<<>>}
    ELSE LET shorter == SeqsUpTo(S, n - 1)
         IN  shorter \cup {Append(s, x) : s \in {q \in shorter : Len(q) = n - 1}, x \in S}

VARIABLES
    fifo_,           \* [Pipes -> [0..size-1 -> optional]]
    write_,          \* [Pipes -> 0..size-1]
    read_,           \* [Pipes -> 0..size-1]
    readyForWrite_,  \* [Pipes -> SUBSET Threads] : threads inside readyForWrite_.wait
    readyForRead_,   \* [Pipes -> SUBSET Threads] : threads inside readyForRead_.wait
    pc,              \* [Threads -> position in the thread's program]
    idx,             \* [Threads -> position of the iterator over the source vector]
    e,               \* [Threads -> the loop variable e of a worker, as optional]
    out,             \* [Threads -> sequence of values the thread printed / collected]
    ret,             \* [Threads -> whether the thread's last call has returned, and what]
    aborted,         \* the process died on a failed assertion
    scenario,        \* which program runs
    vals,            \* the source vector
    nReaders,        \* number of reader threads of the test pipe
    wiring,          \* the workers and pipes the connect calls of the program created
    probes,          \* [Threads -> what the thread's queries after the end of the stream said]
    same,            \* [Threads -> what the thread's comparison of two Sinks said]
    late,            \* number of enqueue() calls after close() that have returned
    \* history
    written,         \* [Pipes -> sequence of the entries written, in order]
    removed,         \* [Pipes -> sequence of the entries dequeue took out, in order]
    returned,        \* [Pipes -> sequence of the values dequeue returned, in order]
    stalled          \* [Threads -> the current call has waited at least once]

pipeVars == <<fifo_, write_, read_>>
cvVars   == <<readyForWrite_, readyForRead_>>
histVars == <<written, removed, returned>>
callVars == <<ret, stalled, aborted>>
progVars == <<pc, idx, e, out, probes, same, late>>
confVars == <<scenario, vals, nReaders, wiring>>
vars == <<fifo_, write_, read_, readyForWrite_, readyForRead_, pc, idx, e, out, probes, same, late,
          ret, aborted, scenario, vals, nReaders, wiring, written, removed, returned, stalled>>

----------------------------------------------------------------------------
\* Pipe<T>

size(p) == Cardinality(DOMAIN fifo_[p])          \* fifo_.size()

\* writeHeadroom() without the reserved slot
writeHeadroom_no_reserve(p) ==
    IF write_[p] < read_[p]
    THEN read_[p] - write_[p]
    ELSE (read_[p] + size(p)) - write_[p]

writeHeadroom(p) ==
    (IF write_[p] < read_[p]
     THEN read_[p] - write_[p]
     ELSE (read_[p] + size(p)) - write_[p]) - 1

\* readHeadroom() that takes the plain difference of the cursors
readHeadroom_no_wrap(p) == write_[p] - read_[p]

readHeadroom(p) ==
    IF read_[p] <= write_[p]
    THEN write_[p] - read_[p]
    ELSE (write_[p] + size(p)) - read_[p]

incrementWrite(p) == [write_ EXCEPT ![p] = (write_[p] + 1) % size(p)]

incrementRead(p) == [read_ EXCEPT ![p] = (read_[p] + 1) % size(p)]

\* Pipe(fifoSize): fifoSize default-constructed (empty) optionals, both cursors 0
NewFifo(fifoSize) == [i \in 0..(fifoSize - 1) |-> None]

\* the constructor's assertion, off by one
Pipe_assert_lax(fifoSize) == fifoSize >= MinFifoSize - 1

\* assert (fifoSize >= 2) in the constructor body: FALSE ends the program
Pipe_assert(fifoSize) == fifoSize >= MinFifoSize


IsEngaged(o) == Len(o) = 1                       \* optional converted to bool

\* the values a read of a disengaged optional<T> can produce
Indeterminate == Values \cup {0}

\* condition_variable::notify_one / notify_all: the possible wait sets afterwards
notify_one(cv, p) ==
    IF cv[p] = {} THEN {cv} ELSE {[cv EXCEPT ![p] = @ \ {w}] : w \in cv[p]}

notify_all(cv, p) == {[cv EXCEPT ![p] = {}]}

\* the call of thread t returns (nothing, a bool, a T) / stays pending inside a wait
ReturnVoid(t) ==
    /\ ret' = [ret EXCEPT ![t].done = TRUE]
    /\ stalled' = [stalled EXCEPT ![t] = FALSE]

ReturnBool(t, b) ==
    /\ ret' = [ret EXCEPT ![t].done = TRUE, ![t].open = b]
    /\ stalled' = [stalled EXCEPT ![t] = FALSE]

ReturnValue(t, v) ==
    /\ ret' = [ret EXCEPT ![t].done = TRUE, ![t].val = Some(v)]
    /\ stalled' = [stalled EXCEPT ![t] = FALSE]

Pending(t) ==
    /\ ret' = [ret EXCEPT ![t].done = FALSE]
    /\ stalled' = [stalled EXCEPT ![t] = TRUE]

\* enqueue() that tests the headroom with if instead of while
enqueue_if(t, p, v) ==
    IF writeHeadroom(p) = 0 /\ ~stalled[t]
    THEN /\ readyForWrite_' = [readyForWrite_ EXCEPT ![p] = @ \cup {t}]
         /\ Pending(t)
         /\ UNCHANGED <<pipeVars, readyForRead_, histVars, aborted>>
    ELSE /\ fifo_' = [fifo_ EXCEPT ![p][write_[p]] = Some(v)]
         /\ write_' = incrementWrite(p)
         /\ readyForRead_' \in notify_one(readyForRead_, p)
         /\ ReturnVoid(t)
         /\ written' = [written EXCEPT ![p] = Append(@, Some(v))]
         /\ UNCHANGED <<read_, readyForWrite_, removed, returned, aborted>>

\* enqueue() that drops what is enqueued after close()
enqueue_drop_closed(t, p, v) ==
    IF \E i \in DOMAIN written[p] : written[p][i] = None
    THEN /\ ReturnVoid(t)
         /\ UNCHANGED <<pipeVars, cvVars, histVars, aborted>>
    ELSE IF writeHeadroom(p) = 0
    THEN /\ readyForWrite_' = [readyForWrite_ EXCEPT ![p] = @ \cup {t}]
         /\ Pending(t)
         /\ UNCHANGED <<pipeVars, readyForRead_, histVars, aborted>>
    ELSE /\ fifo_' = [fifo_ EXCEPT ![p][write_[p]] = Some(v)]
         /\ write_' = incrementWrite(p)
         /\ readyForRead_' \in notify_one(readyForRead_, p)
         /\ ReturnVoid(t)
         /\ written' = [written EXCEPT ![p] = Append(@, Some(v))]
         /\ UNCHANGED <<read_, readyForWrite_, removed, returned, aborted>>

\* void Pipe::enqueue(T const& e), run by thread t on pipe p
enqueue(t, p, v) ==
    IF writeHeadroom(p) = 0
    THEN /\ readyForWrite_' = [readyForWrite_ EXCEPT ![p] = @ \cup {t}]
         /\ Pending(t)
         /\ UNCHANGED <<pipeVars, readyForRead_, histVars, aborted>>
    ELSE /\ fifo_' = [fifo_ EXCEPT ![p][write_[p]] = Some(v)]
         /\ write_' = incrementWrite(p)
         /\ readyForRead_' \in notify_one(readyForRead_, p)
         /\ ReturnVoid(t)
         /\ written' = [written EXCEPT ![p] = Append(@, Some(v))]
         /\ UNCHANGED <<read_, readyForWrite_, removed, returned, aborted>>

\* close() that writes the sentinel and wakes nobody
close_no_notify(t, p) ==
    IF writeHeadroom(p) = 0
    THEN /\ readyForWrite_' = [readyForWrite_ EXCEPT ![p] = @ \cup {t}]
         /\ Pending(t)
         /\ UNCHANGED <<pipeVars, readyForRead_, histVars, aborted>>
    ELSE /\ fifo_' = [fifo_ EXCEPT ![p][write_[p]] = None]
         /\ write_' = incrementWrite(p)
         /\ ReturnVoid(t)
         /\ written' = [written EXCEPT ![p] = Append(@, None)]
         /\ UNCHANGED <<read_, cvVars, removed, returned, aborted>>

\* void Pipe::close()
close(t, p) ==
    IF writeHeadroom(p) = 0
    THEN /\ readyForWrite_' = [readyForWrite_ EXCEPT ![p] = @ \cup {t}]
         /\ Pending(t)
         /\ UNCHANGED <<pipeVars, readyForRead_, histVars, aborted>>
    ELSE /\ fifo_' = [fifo_ EXCEPT ![p][write_[p]] = None]
         /\ write_' = incrementWrite(p)
         /\ readyForRead_' \in notify_all(readyForRead_, p)
         /\ ReturnVoid(t)
         /\ written' = [written EXCEPT ![p] = Append(@, None)]
         /\ UNCHANGED <<read_, readyForWrite_, removed, returned, aborted>>

\* isOpen() that takes the entry it looked at out of the pipe
isOpen_consuming(t, p) ==
    IF readHeadroom(p) = 0
    THEN /\ readyForRead_' = [readyForRead_ EXCEPT ![p] = @ \cup {t}]
         /\ Pending(t)
         /\ UNCHANGED <<pipeVars, readyForWrite_, histVars, aborted>>
    ELSE /\ ReturnBool(t, IsEngaged(fifo_[p][read_[p]]))
         /\ read_' = incrementRead(p)
         /\ UNCHANGED <<fifo_, write_, cvVars, histVars, aborted>>

\* isOpen() that looks at the slot without waiting for an entry
isOpen_no_wait(t, p) ==
    /\ ReturnBool(t, IsEngaged(fifo_[p][read_[p]]))
    /\ UNCHANGED <<pipeVars, cvVars, histVars, aborted>>

\* bool Pipe::isOpen()
isOpen(t, p) ==
    IF readHeadroom(p) = 0
    THEN /\ readyForRead_' = [readyForRead_ EXCEPT ![p] = @ \cup {t}]
         /\ Pending(t)
         /\ UNCHANGED <<pipeVars, readyForWrite_, histVars, aborted>>
    ELSE /\ ReturnBool(t, IsEngaged(fifo_[p][read_[p]]))
         /\ UNCHANGED <<pipeVars, cvVars, histVars, aborted>>

\* dequeue() that wakes no writer
dequeue_no_notify(t, p) ==
    IF readHeadroom(p) = 0
    THEN /\ readyForRead_' = [readyForRead_ EXCEPT ![p] = @ \cup {t}]
         /\ Pending(t)
         /\ UNCHANGED <<pipeVars, readyForWrite_, histVars, aborted>>
    ELSE \/ /\ \E v \in (IF IsEngaged(fifo_[p][read_[p]])
                         THEN {fifo_[p][read_[p]][1]}
                         ELSE Indeterminate) :
                  /\ ReturnValue(t, v)
                  /\ returned' = [returned EXCEPT ![p] = Append(@, v)]
            /\ read_' = incrementRead(p)
            /\ removed' = [removed EXCEPT ![p] = Append(@, fifo_[p][read_[p]])]
            /\ UNCHANGED <<fifo_, write_, cvVars, written, aborted>>
         \/ /\ ~IsEngaged(fifo_[p][read_[p]])
            /\ aborted' = TRUE
            /\ ret' = [ret EXCEPT ![t].done = FALSE]
            /\ UNCHANGED <<pipeVars, cvVars, histVars, stalled>>

\* dequeue() that advances the read cursor before it reads the slot
dequeue_inc_first(t, p) ==
    IF readHeadroom(p) = 0
    THEN /\ readyForRead_' = [readyForRead_ EXCEPT ![p] = @ \cup {t}]
         /\ Pending(t)
         /\ UNCHANGED <<pipeVars, readyForWrite_, histVars, aborted>>
    ELSE LET slot == fifo_[p][(read_[p] + 1) % size(p)]
         IN  \/ /\ \E v \in (IF IsEngaged(slot) THEN {slot[1]} ELSE Indeterminate) :
                      /\ ReturnValue(t, v)
                      /\ returned' = [returned EXCEPT ![p] = Append(@, v)]
                /\ read_' = incrementRead(p)
                /\ readyForWrite_' \in notify_one(readyForWrite_, p)
                /\ removed' = [removed EXCEPT ![p] = Append(@, slot)]
                /\ UNCHANGED <<fifo_, write_, readyForRead_, written, aborted>>
             \/ /\ ~IsEngaged(slot)
                /\ aborted' = TRUE
                /\ ret' = [ret EXCEPT ![t].done = FALSE]
                /\ UNCHANGED <<pipeVars, cvVars, histVars, stalled>>

\* dequeue() that keeps waiting while the entry under the read cursor is the sentinel
dequeue_skip_sentinel(t, p) ==
    IF readHeadroom(p) = 0 \/ ~IsEngaged(fifo_[p][read_[p]])
    THEN /\ readyForRead_' = [readyForRead_ EXCEPT ![p] = @ \cup {t}]
         /\ Pending(t)
         /\ UNCHANGED <<pipeVars, readyForWrite_, histVars, aborted>>
    ELSE /\ ReturnValue(t, fifo_[p][read_[p]][1])
         /\ returned' = [returned EXCEPT ![p] = Append(@, fifo_[p][read_[p]][1])]
         /\ read_' = incrementRead(p)
         /\ readyForWrite_' \in notify_one(readyForWrite_, p)
         /\ removed' = [removed EXCEPT ![p] = Append(@, fifo_[p][read_[p]])]
         /\ UNCHANGED <<fifo_, write_, readyForRead_, written, aborted>>

\* T Pipe::dequeue().  *fifo_[read_] on a disengaged optional is undefined:
\* a build with assertions aborts in optional::get, another returns whatever
\* the slot's storage holds.
dequeue(t, p) ==
    IF readHeadroom(p) = 0
    THEN /\ readyForRead_' = [readyForRead_ EXCEPT ![p] = @ \cup {t}]
         /\ Pending(t)
         /\ UNCHANGED <<pipeVars, readyForWrite_, histVars, aborted>>
    ELSE \/ /\ \E v \in (IF IsEngaged(fifo_[p][read_[p]])
                         THEN {fifo_[p][read_[p]][1]}
                         ELSE Indeterminate) :
                  /\ ReturnValue(t, v)
                  /\ returned' = [returned EXCEPT ![p] = Append(@, v)]
            /\ read_' = incrementRead(p)
            /\ readyForWrite_' \in notify_one(readyForWrite_, p)
            /\ removed' = [removed EXCEPT ![p] = Append(@, fifo_[p][read_[p]])]
            /\ UNCHANGED <<fifo_, write_, readyForRead_, written, aborted>>
         \/ /\ ~IsEngaged(fifo_[p][read_[p]])
            /\ aborted' = TRUE
            /\ ret' = [ret EXCEPT ![t].done = FALSE]
            /\ UNCHANGED <<pipeVars, cvVars, histVars, stalled>>

----------------------------------------------------------------------------
\* Sink<T> : pipe_ is a pipe id, or NullPipe for the end marker

\* the pipe on which (a == b) calls isOpen(), NullPipe when it calls none
Sink_eq_calls(a, b) ==
    IF a = b THEN NullPipe
    ELSE LET x == IF a = NullPipe THEN b ELSE a      \* after std::swap(a, b)
             y == IF a = NullPipe THEN a ELSE b
         IN  IF y # NullPipe THEN NullPipe ELSE x

\* the value of (a == b), given what that isOpen() call returned
Sink_eq_value(a, b, open) ==
    IF a = b THEN TRUE
    ELSE LET y == IF a = NullPipe THEN a ELSE b
         IN  ~(y # NullPipe \/ open)

\* bool Sink::operator != (iterator& other)
Sink_ne_value(a, b, open) == ~Sink_eq_value(a, b, open)

\* the steps of thread t evaluating (a == b) or (a != b)
Sink_compare(t, a, b) ==
    IF Sink_eq_calls(a, b) = NullPipe
    THEN /\ ReturnBool(t, FALSE)
         /\ UNCHANGED <<pipeVars, cvVars, histVars, aborted>>
    ELSE isOpen(t, Sink_eq_calls(a, b))

\* value_type Sink::operator * ()
Sink_deref(t, a) == dequeue(t, a)

----------------------------------------------------------------------------
\* The programs

\* connect: the functions a program composes, and the three ways to write it
Funcs(sc) ==
    CASE sc = "connect" -> <<"Times2", "Label">>
      [] sc = "void" -> <<"getFirstChar", "printLine">>
      [] sc = "abandon" -> <<"Times2">>
      [] OTHER -> <<>>

Forms == {"variadic", "nested", "operator"}

IsVoid(f) == f = "printLine"                     \* connect_traits: return_type is void

\* an iterable handed to connect: the source vector, or what an earlier connect
\* returned, together with the workers and pipes created so far
Source ==
    [stages |-> <<>>, pipes |-> 0, result |-> [kind |-> "vector", pipe |-> NullPipe]]

\* connect_impl<Output>::connect: one new Pipe, one detached worker, a Sink;
\* connect_impl<void>::connect: one std::async worker, a future
connect_impl(input_, f) ==
    IF IsVoid(f)
    THEN [stages |-> Append(input_.stages,
                            [in |-> input_.result.pipe, fn |-> f, out |-> NullPipe]),
          pipes  |-> input_.pipes,
          result |-> [kind |-> "future", pipe |-> NullPipe]]
    ELSE [stages |-> Append(input_.stages,
                            [in |-> input_.result.pipe, fn |-> f, out |-> input_.pipes + 1]),
          pipes  |-> input_.pipes + 1,
          result |-> [kind |-> "sink", pipe |-> input_.pipes + 1]]

\* connect(input, func)
connect(input_, f) == connect_impl(input_, f)

\* a variadic connect that binds the functions last to first
RECURSIVE connect_variadic_backwards(_, _)
connect_variadic_backwards(input_, funcs) ==
    IF Len(funcs) = 1
    THEN connect(input_, funcs[1])
    ELSE connect_variadic_backwards(connect(input_, funcs[Len(funcs)]),
                                    SubSeq(funcs, 1, Len(funcs) - 1))

\* connect(input, func, func2, funcs...)
RECURSIVE connect_variadic(_, _)
connect_variadic(input_, funcs) ==
    IF Len(funcs) = 1
    THEN connect(input_, funcs[1])
    ELSE connect_variadic(connect(input_, funcs[1]), Tail(funcs))

\* input >> func
shift(input_, f) == connect(input_, f)

\* source >> f1 >> ... >> fn  (operator >> associates to the left)
RECURSIVE shift_all(_, _)
shift_all(input_, funcs) ==
    IF funcs = <<>>
    THEN input_
    ELSE shift(shift_all(input_, SubSeq(funcs, 1, Len(funcs) - 1)), funcs[Len(funcs)])

Compose(form, input_, funcs) ==
    CASE form = "variadic" -> connect_variadic(input_, funcs)
      [] form = "nested" ->
            IF Len(funcs) = 1
            THEN connect(input_, funcs[1])
            ELSE connect_variadic(connect(input_, funcs[1]), Tail(funcs))
      [] OTHER -> shift_all(input_, funcs)

\* the worker thread of the i-th connect
StageOf(t) == IF t = "w1" THEN 1 ELSE IF t = "w2" THEN 2 ELSE 0

HasStage(t) == StageOf(t) \in DOMAIN wiring.stages

\* what each thread runs in each scenario
role(t) ==
    CASE scenario \in {"pipe", "late"} ->
            (CASE t = "main" -> "producer"
               [] t = "a" -> "reader"
               [] t = "b" -> IF nReaders = 2 THEN "reader" ELSE "unused"
               [] OTHER -> "unused")
      [] HasStage(t) ->
            IF wiring.stages[StageOf(t)].out = NullPipe THEN "voidstage" ELSE "stage"
      [] t = "main" /\ scenario # "abandon" ->  \* abandon: the Sink is never read
            IF wiring.result.kind = "future" THEN "waiter" ELSE "consumer"
      [] OTHER -> "unused"

\* the Sink a thread iterates (NullPipe: it iterates the source vector)
input(t) ==
    CASE HasStage(t) -> wiring.stages[StageOf(t)].in
      [] t = "main" -> wiring.result.pipe
      [] t \in {"a", "b"} -> 1
      [] OTHER -> NullPipe

\* the Pipe a thread writes to (NullPipe: none)
output(t) ==
    CASE HasStage(t) -> wiring.stages[StageOf(t)].out
      [] t = "main" /\ scenario \in {"pipe", "late"} -> 1
      [] OTHER -> NullPipe

\* the stage functions
Times2(x) == x * 2

RECURSIVE Digits(_)
Digits(n) == IF n < 10 THEN <<n>> ELSE Append(Digits(n \div 10), n % 10)

Label(x) == <<"x">> \o Digits(x)

getFirstChar(s) == IF Len(s) = 0 THEN NUL ELSE s[1]

\* the two-stage pipeline built without its first function
func_drop_first(t, x) ==
    CASE scenario = "connect" /\ t = "w2" -> Label(x)
      [] OTHER -> x

func(t, x) ==
    CASE ~HasStage(t) -> x
      [] wiring.stages[StageOf(t)].fn = "Times2" -> Times2(x)
      [] wiring.stages[StageOf(t)].fn = "Label" -> Label(x)
      [] wiring.stages[StageOf(t)].fn = "getFirstChar" -> getFirstChar(x)
      [] OTHER -> x                              \* printLine: the line it prints

Runnable(t) ==
    /\ ~aborted
    /\ \A p \in Pipes : t \notin readyForWrite_[p] \cup readyForRead_[p]

HasReturned(t) == ret'[t].done

LocalStep == UNCHANGED <<pipeVars, cvVars, histVars, callVars>>

\* for (auto& e : vals) pipe.enqueue(e);
ProducerEnqueue(t) ==
    /\ role(t) = "producer" /\ pc[t] = "produce" /\ Runnable(t)
    /\ enqueue(t, output(t), vals[idx[t]])
    /\ IF HasReturned(t)
       THEN /\ idx' = [idx EXCEPT ![t] = @ + 1]
            /\ pc' = [pc EXCEPT ![t] = IF idx[t] + 1 > Len(vals) THEN "close" ELSE "produce"]
       ELSE UNCHANGED <<idx, pc>>
    /\ UNCHANGED <<e, out, probes, same, late, confVars>>

\* pipe.close();
ProducerClose(t) ==
    /\ role(t) = "producer" /\ pc[t] = "close" /\ Runnable(t)
    /\ close(t, output(t))
    /\ pc' = [pc EXCEPT ![t] = IF ~HasReturned(t) THEN "close"
                               ELSE IF scenario = "late" THEN "late" ELSE "join"]
    /\ UNCHANGED <<idx, e, out, probes, same, late, confVars>>

\* pipe.enqueue(LateValue) after pipe.close(), MaxLate times
ProducerLate(t) ==
    /\ role(t) = "producer" /\ pc[t] = "late" /\ Runnable(t)
    /\ enqueue(t, output(t), LateValue)
    /\ IF HasReturned(t)
       THEN /\ late' = late + 1
            /\ pc' = [pc EXCEPT ![t] = IF late + 1 >= MaxLate THEN "join" ELSE "late"]
       ELSE UNCHANGED <<late, pc>>
    /\ UNCHANGED <<idx, e, out, probes, same, confVars>>

\* a.join(); b.join();
ProducerJoin(t) ==
    /\ role(t) = "producer" /\ pc[t] = "join" /\ Runnable(t)
    /\ \A r \in Threads : role(r) = "reader" => pc[r] = "done" /\ Runnable(r)
    /\ pc' = [pc EXCEPT ![t] = "done"]
    /\ LocalStep
    /\ UNCHANGED <<idx, e, out, probes, same, late, confVars>>

\* while (pipe.isOpen())
ReaderIsOpen(t) ==
    /\ role(t) = "reader" /\ pc[t] = "isOpen" /\ Runnable(t)
    /\ isOpen(t, input(t))
    /\ pc' = [pc EXCEPT ![t] = IF ~HasReturned(t) THEN "isOpen"
                                ELSE IF ret'[t].open THEN "dequeue" ELSE "done"]
    /\ UNCHANGED <<idx, e, out, probes, same, late, confVars>>

\*     std::cout << pipe.dequeue() << std::endl;
ReaderDequeue(t) ==
    /\ role(t) = "reader" /\ pc[t] = "dequeue" /\ Runnable(t)
    /\ dequeue(t, input(t))
    /\ IF HasReturned(t)
       THEN /\ out' = [out EXCEPT ![t] = Append(@, ret'[t].val[1])]
            /\ pc' = [pc EXCEPT ![t] = "isOpen"]
       ELSE UNCHANGED <<out, pc>>
    /\ UNCHANGED <<idx, e, probes, same, late, confVars>>

\* the worker lambdas of connect_impl: for (auto&& e : inputForwarder.val)
\* __begin != __end
WorkerTest(t) ==
    /\ role(t) \in {"stage", "voidstage"} /\ pc[t] = "test" /\ Runnable(t)
    /\ LET exhausted == IF role(t) = "stage" THEN "close" ELSE "done"
       IN  IF input(t) = NullPipe
           THEN /\ pc' = [pc EXCEPT ![t] = IF idx[t] <= Len(vals) THEN "deref" ELSE exhausted]
                /\ LocalStep
           ELSE /\ Sink_compare(t, input(t), NullPipe)
                /\ pc' = [pc EXCEPT ![t] =
                            IF ~HasReturned(t) THEN "test"
                            ELSE IF Sink_ne_value(input(t), NullPipe, ret'[t].open)
                                 THEN "deref" ELSE exhausted]
    /\ UNCHANGED <<idx, e, out, probes, same, late, confVars>>

\* auto&& e = *__begin  (and ++__begin at the end of the body: a no-op on a Sink)
WorkerDeref(t) ==
    /\ role(t) \in {"stage", "voidstage"} /\ pc[t] = "deref" /\ Runnable(t)
    /\ LET body == IF role(t) = "stage" THEN "enqueue" ELSE "call"
       IN  IF input(t) = NullPipe
           THEN /\ e' = [e EXCEPT ![t] = Some(vals[idx[t]])]
                /\ idx' = [idx EXCEPT ![t] = @ + 1]
                /\ pc' = [pc EXCEPT ![t] = body]
                /\ LocalStep
           ELSE /\ Sink_deref(t, input(t))
                /\ IF HasReturned(t)
                   THEN /\ e' = [e EXCEPT ![t] = ret'[t].val]
                        /\ pc' = [pc EXCEPT ![t] = body]
                   ELSE UNCHANGED <<e, pc>>
                /\ UNCHANGED idx
    /\ UNCHANGED <<out, probes, same, late, confVars>>

\* a worker that closes its pipe after the first element
WorkerEnqueue_close_early(t) ==
    /\ role(t) = "stage" /\ pc[t] = "enqueue" /\ Runnable(t)
    /\ enqueue(t, output(t), func(t, e[t][1]))
    /\ pc' = [pc EXCEPT ![t] = IF HasReturned(t) THEN "close" ELSE "enqueue"]
    /\ UNCHANGED <<idx, e, out, probes, same, late, confVars>>

\* pipe->enqueue(func(e));
WorkerEnqueue(t) ==
    /\ role(t) = "stage" /\ pc[t] = "enqueue" /\ Runnable(t)
    /\ enqueue(t, output(t), func(t, e[t][1]))
    /\ pc' = [pc EXCEPT ![t] = IF HasReturned(t) THEN "test" ELSE "enqueue"]
    /\ UNCHANGED <<idx, e, out, probes, same, late, confVars>>

\* a worker that ends without closing its pipe
WorkerClose_skipped(t) ==
    /\ role(t) = "stage" /\ pc[t] = "close" /\ Runnable(t)
    /\ pc' = [pc EXCEPT ![t] = "done"]
    /\ LocalStep
    /\ UNCHANGED <<idx, e, out, probes, same, late, confVars>>

\* pipe->close();
WorkerClose(t) ==
    /\ role(t) = "stage" /\ pc[t] = "close" /\ Runnable(t)
    /\ close(t, output(t))
    /\ pc' = [pc EXCEPT ![t] = IF HasReturned(t) THEN "done" ELSE "close"]
    /\ UNCHANGED <<idx, e, out, probes, same, late, confVars>>

\* func(e);  with func = printLine: the character goes to the output
WorkerCall(t) ==
    /\ role(t) = "voidstage" /\ pc[t] = "call" /\ Runnable(t)
    /\ out' = [out EXCEPT ![t] = Append(@, func(t, e[t][1]))]
    /\ pc' = [pc EXCEPT ![t] = "test"]
    /\ LocalStep
    /\ UNCHANGED <<idx, e, probes, same, late, confVars>>

\* the caller draining the Sink that connect returned: it != sink.end()
ConsumerTest(t) ==
    /\ role(t) = "consumer" /\ pc[t] = "test" /\ Runnable(t)
    /\ Sink_compare(t, input(t), NullPipe)
    /\ pc' = [pc EXCEPT ![t] =
                IF ~HasReturned(t) THEN "test"
                ELSE IF Sink_ne_value(input(t), NullPipe, ret'[t].open)
                     THEN "deref" ELSE "done"]
    /\ UNCHANGED <<idx, e, out, probes, same, late, confVars>>

\* *it
ConsumerTake(t) ==
    /\ role(t) = "consumer" /\ pc[t] = "deref" /\ Runnable(t)
    /\ Sink_deref(t, input(t))
    /\ IF HasReturned(t)
       THEN /\ out' = [out EXCEPT ![t] = Append(@, ret'[t].val[1])]
            /\ pc' = [pc EXCEPT ![t] = "test"]
       ELSE UNCHANGED <<out, pc>>
    /\ UNCHANGED <<idx, e, probes, same, late, confVars>>

\* a future that is ready as soon as it is returned
FutureReady_at_once == pc["w2"] \in {"test", "deref", "call", "done"}

\* the shared state of std::async is ready once its task has run to the end
FutureReady == pc["w2"] = "done"

\* ( vals >> getFirstChar >> printLine ).wait();
FutureWait(t) ==
    /\ role(t) = "waiter" /\ pc[t] = "wait" /\ Runnable(t)
    /\ FutureReady
    /\ pc' = [pc EXCEPT ![t] = "done"]
    /\ LocalStep
    /\ UNCHANGED <<idx, e, out, probes, same, late, confVars>>

\* a reader that has left its loop asks once more whether there is more:
\* pipe.isOpen() for a test reader, it == end() for the caller holding a Sink
Requery(t) ==
    /\ role(t) \in {"reader", "consumer"} /\ pc[t] = "done" /\ Runnable(t)
    /\ scenario # "late"                         \* those readers end with their loop
    /\ probes[t] = <<>>
    /\ IF role(t) = "reader"
       THEN /\ isOpen(t, input(t))
            /\ probes' = [probes EXCEPT ![t] =
                             IF HasReturned(t) THEN Append(@, ~ret'[t].open) ELSE @]
       ELSE /\ Sink_compare(t, input(t), NullPipe)
            /\ probes' = [probes EXCEPT ![t] =
                             IF HasReturned(t)
                             THEN Append(@, Sink_eq_value(input(t), NullPipe, ret'[t].open))
                             ELSE @]
    /\ UNCHANGED <<pc, idx, e, out, same, late, confVars>>

\* the caller compares the Sink of the last stage with the Sink of the
\* stage before it, (s2 == s1), two Sinks bound to different pipes, before it
\* starts to drain s2 or after it has drained it
CompareSinks(t) ==
    /\ role(t) = "consumer" /\ Runnable(t)
    /\ \/ pc[t] = "test" /\ out[t] = <<>> /\ ~stalled[t]
       \/ pc[t] = "done"
    /\ same[t] = <<>>
    /\ Sink_compare(t, output("w2"), output("w1"))
    /\ same' = [same EXCEPT ![t] =
                  <<Sink_eq_value(output("w2"), output("w1"), ret'[t].open)>>]
    /\ UNCHANGED <<pc, idx, e, out, probes, late, confVars>>

\* condition_variable::wait may return without a notify
SpuriousWake(t) ==
    /\ ~aborted
    /\ \E p \in Pipes :
          \/ /\ t \in readyForWrite_[p]
             /\ readyForWrite_' = [readyForWrite_ EXCEPT ![p] = @ \ {t}]
             /\ UNCHANGED readyForRead_
          \/ /\ t \in readyForRead_[p]
             /\ readyForRead_' = [readyForRead_ EXCEPT ![p] = @ \ {t}]
             /\ UNCHANGED readyForWrite_
    /\ UNCHANGED <<pipeVars, histVars, callVars, progVars, confVars>>

----------------------------------------------------------------------------
\* the source vectors of each scenario
Sources(sc) ==
    CASE sc = "void" -> SeqsUpTo(Words, MaxN)
      [] sc = "late" -> SeqsUpTo({1}, 1)         \* what follows close() is what matters there
      [] OTHER -> {v \in SeqsUpTo(Values, MaxN) : v = <<>> \/ v[1] = 1}   \* vectors that start at 1

\* the fifoSize of pipe p: the test pipe is Pipe<T> pipe(cap), connect makes Pipe<Output>(2)
FifoSize(sc, p, cap) == IF sc \in {"pipe", "late"} /\ p = 1 THEN cap ELSE DefaultFifoSize

InitialPc(t) ==
    CASE role(t) = "producer" -> IF Len(vals) = 0 THEN "close" ELSE "produce"
      [] role(t) = "reader" -> "isOpen"
      [] role(t) \in {"stage", "voidstage", "consumer"} -> "test"
      [] role(t) = "waiter" -> "wait"
      [] OTHER -> "unused"

Init ==
    /\ scenario \in Scenarios
    /\ nReaders \in (IF scenario \in {"pipe", "late"} THEN 1..2 ELSE {1})
    /\ vals \in Sources(scenario)
    /\ wiring \in (IF Funcs(scenario) = <<>>
                  THEN {Source}
                  ELSE {Compose(form, Source, Funcs(scenario)) : form \in Forms})
    /\ \E cap \in 0..MaxCap :
          /\ fifo_ = [p \in Pipes |-> NewFifo(FifoSize(scenario, p, cap))]
          /\ aborted = ~(\A p \in Pipes : Pipe_assert(FifoSize(scenario, p, cap)))
    /\ write_ = [p \in Pipes |-> 0]
    /\ read_ = [p \in Pipes |-> 0]
    /\ readyForWrite_ = [p \in Pipes |-> {}]
    /\ readyForRead_ = [p \in Pipes |-> {}]
    /\ pc = [t \in Threads |-> InitialPc(t)]
    /\ idx = [t \in Threads |-> 1]
    /\ e = [t \in Threads |-> None]
    /\ out = [t \in Threads |-> <<>>]
    /\ ret = [t \in Threads |-> [done |-> FALSE, open |-> FALSE, val |-> None]]
    /\ written = [p \in Pipes |-> <<>>]
    /\ removed = [p \in Pipes |-> <<>>]
    /\ returned = [p \in Pipes |-> <<>>]
    /\ stalled = [t \in Threads |-> FALSE]
    /\ probes = [t \in Threads |-> <<>>]
    /\ same = [t \in Threads |-> <<>>]
    /\ late = 0

ThreadStep(t) ==
    \/ ProducerEnqueue(t)
    \/ ProducerClose(t)
    \/ ProducerLate(t)
    \/ ProducerJoin(t)
    \/ ReaderIsOpen(t)
    \/ ReaderDequeue(t)
    \/ WorkerTest(t)
    \/ WorkerDeref(t)
    \/ WorkerEnqueue(t)
    \/ WorkerClose(t)
    \/ WorkerCall(t)
    \/ ConsumerTest(t)
    \/ ConsumerTake(t)
    \/ FutureWait(t)
    \/ Requery(t)
    \/ CompareSinks(t)

Next == \E t \in Threads : ThreadStep(t) \/ SpuriousWake(t)

Spec == Init /\ [][Next]_vars

\* a thread that can run is eventually scheduled; nothing forces a spurious wake-up
FairSpec == Spec /\ \A t \in Threads : WF_vars(ThreadStep(t))

TypeOK ==
    /\ \A p \in Pipes :
          size(p) >= MinFifoSize => write_[p] \in DOMAIN fifo_[p] /\ read_[p] \in DOMAIN fifo_[p]
    /\ aborted \in BOOLEAN
    /\ \A t \in Threads : probes[t] \in {<<>>, <<TRUE>>, <<FALSE>>}
    /\ \A t \in Threads : same[t] \in {<<>>, <<TRUE>>, <<FALSE>>}
    /\ late \in 0..MaxLate

----------------------------------------------------------------------------
\* Properties

Live(p) == Len(written[p]) - Len(removed[p])      \* entries written and not yet dequeued

IsPrefix(s, t) == Len(s) <= Len(t) /\ s = SubSeq(t, 1, Len(s))

\* the test pipe was constructed and has one reader, two readers
SingleReader == scenario = "pipe" /\ nReaders = 1 /\ Pipe_assert(size(1))
TwoReaders == scenario = "pipe" /\ nReaders = 2 /\ Pipe_assert(size(1))

\* C1: with one producer and one reader on a pipe, the n-th value dequeue
\* returns is the n-th value passed to enqueue, for every capacity and through
\* the wrap-around of both cursors.
C1_Fifo ==
    SingleReader =>
        /\ IsPrefix(returned[1], vals)
        /\ out["a"] = returned[1]

C1_Witness ==
    /\ SingleReader
    /\ Len(vals) = MaxN
    /\ returned[1] = vals
    /\ vals[1] # vals[MaxN]
    /\ size(1) = MinFifoSize
    /\ Len(written[1]) >= size(1)

\* C2: a producer enqueues vals and closes; the single consumer looping
\* while (isOpen()) dequeue() receives exactly vals in order, never takes the
\* sentinel out, and eventually sees isOpen() = false and leaves its loop.
C2_CloseTerminates ==
    /\ [](SingleReader =>
            /\ IsPrefix(out["a"], vals)
            /\ \A i \in 1..Len(removed[1]) : IsEngaged(removed[1][i])
            /\ (pc["a"] = "done" => out["a"] = vals))
    /\ (SingleReader ~> (pc["a"] = "done" /\ out["a"] = vals))

C2_Witness ==
    /\ SingleReader
    /\ Len(vals) = MaxN
    /\ pc["a"] = "done"
    /\ out["a"] = vals
    /\ removed[1] = [i \in 1..MaxN |-> Some(vals[i])]
    /\ written[1] = Append(removed[1], None)

\* C3: a pipe of capacity C (one that passed the constructor's assertion)
\* never holds more than C - 1 entries (values and sentinel) that were written
\* and not yet dequeued.
C3_CapacityBound ==
    \A p \in Pipes : Live(p) >= 0 /\ (Pipe_assert(size(p)) => Live(p) <= size(p) - 1)

C3_Witness ==
    /\ size(1) = MaxCap
    /\ Live(1) = MaxCap - 1
    /\ \A i \in 1..Len(written[1]) : IsEngaged(written[1][i])

\* the slots that hold an entry not yet dequeued
LiveSlots(p) == {(read_[p] + k) % size(p) : k \in 0..(Live(p) - 1)}

\* C4: a step that stores into the buffer or moves the write cursor of a pipe
\* is taken only while fewer than capacity - 1 entries are live, and the slot
\* it stores into holds no undequeued entry; so an enqueue() or close() called
\* on a full pipe writes nothing before a dequeue() has moved the read cursor.
C4_BlockedWhenFull ==
    [][\A p \in Pipes :
          (fifo_'[p] # fifo_[p] \/ write_'[p] # write_[p]) =>
              /\ Live(p) < size(p) - 1
              /\ write_[p] \notin LiveSlots(p)
              /\ \A i \in LiveSlots(p) : fifo_'[p][i] = fifo_[p][i]]_vars

\* a producer waits inside enqueue() on a full pipe
C4_Witness ==
    /\ scenario = "pipe"
    /\ pc["main"] = "produce"
    /\ "main" \in readyForWrite_[1]
    /\ Live(1) = size(1) - 1
    /\ idx["main"] = Len(written[1]) + 1

\* thread t is inside enqueue() on pipe p
InEnqueue(t, p) ==
    /\ output(t) = p
    /\ \/ role(t) = "producer" /\ pc[t] = "produce"
       \/ role(t) = "stage" /\ pc[t] = "enqueue"

\* thread t waited in enqueue() on the full pipe p and a dequeue() has since made room
Unblocked(t, p) == InEnqueue(t, p) /\ stalled[t] /\ writeHeadroom(p) > 0

\* C5: once a dequeue() has made room in a pipe on which a producer waits
\* inside enqueue(), that enqueue() eventually completes (stalled[t] is reset
\* by the return of the call that waited, and by nothing else).
C5_UnblockAfterPop ==
    \A t \in {"main", "w1", "w2"} :
        Unblocked(t, output(t)) ~> ~stalled[t]

C5_Witness ==
    /\ Unblocked("main", 1)
    /\ "main" \notin readyForWrite_[1]
    /\ Len(removed[1]) > 0

\* C6 (as claimed): with two readers looping while (isOpen()) dequeue() and N
\* distinct values followed by close(), every value is returned by exactly one
\* dequeue(): none twice, and none missing once both readers have left.
Distinct(q) == \A i, j \in 1..Len(q) : i # j => q[i] # q[j]

TimesReturned(p, v) == Cardinality({j \in 1..Len(returned[p]) : returned[p][j] = v})

C6_ExactlyOnce ==
    (TwoReaders /\ Distinct(vals)) =>
        /\ \A i \in 1..Len(vals) : TimesReturned(1, vals[i]) <= 1
        /\ (pc["a"] = "done" /\ pc["b"] = "done") =>
               \A i \in 1..Len(vals) : TimesReturned(1, vals[i]) = 1

\* C7 (as claimed): in testSplitting both readers eventually leave their loops
\* and both joins return.  A run in which the process dies on the failed
\* assertion of optional::get is not counted against the claim here.
C7_BothReadersLeave ==
    TwoReaders ~> (aborted \/ (pc["a"] = "done" /\ pc["b"] = "done" /\ pc["main"] = "done"))

\* what draining connect(vals, f1, f2) must yield
Composed == [i \in 1..Len(vals) |-> Label(Times2(vals[i]))]

\* C8: the caller draining the Sink of connect(vals, Times2, Label) receives
\* Label(Times2(vals[1])), ..., in source order, and has received all of them
\* when it sees the end of the stream.
C8_CompositionOrder ==
    scenario = "connect" =>
        /\ IsPrefix(out["main"], Composed)
        /\ pc["main"] = "done" => out["main"] = Composed

C8_Witness ==
    /\ scenario = "connect"
    /\ Len(vals) = MaxN
    /\ vals[1] = 1 /\ vals[MaxN] = 5
    /\ pc["main"] = "done"
    /\ out["main"] = Composed
    /\ out["main"][MaxN] = <<"x", 1, 0>>

\* what printLine must have printed when vals >> getFirstChar >> printLine is done
FirstChars == [i \in 1..Len(vals) |-> getFirstChar(vals[i])]

\* C9: with a void last stage the caller gets a future; wait() returns only
\* after printLine has been applied to the first character of every source
\* element, once each and in source order.
C9_VoidStage ==
    scenario = "void" =>
        /\ IsPrefix(out["w2"], FirstChars)
        /\ pc["main"] = "done" => out["w2"] = FirstChars

C9_Witness ==
    /\ scenario = "void"
    /\ Len(vals) = MaxN
    /\ vals[1] # vals[MaxN]
    /\ pc["main"] = "done"
    /\ out["w2"] = FirstChars

\* the last isOpen() of thread t, on the pipe it reads, returned false
SawEnd(t) ==
    \/ role(t) \in {"reader", "consumer"} /\ pc[t] = "done"
    \/ role(t) = "stage" /\ input(t) # NullPipe /\ pc[t] \in {"close", "done"}
    \/ role(t) = "voidstage" /\ input(t) # NullPipe /\ pc[t] = "done"

\* the values written to pipe p before its first sentinel
RECURSIVE UpToSentinel(_)
UpToSentinel(q) ==
    IF q = <<>> \/ ~IsEngaged(Head(q)) THEN <<>> ELSE <<Head(q)>> \o UpToSentinel(Tail(q))

\* C10: isOpen() returns false only when every value enqueued before close()
\* has been taken out by a dequeue(), whatever the number of readers.
C10_SentinelLast ==
    \A t \in Threads :
        SawEnd(t) =>
            /\ Len(written[input(t)]) > Len(UpToSentinel(written[input(t)]))
            /\ IsPrefix(UpToSentinel(written[input(t)]), removed[input(t)])

C10_Witness ==
    /\ TwoReaders
    /\ Len(vals) = MaxN
    /\ SawEnd("a") /\ SawEnd("b")
    /\ out["a"] # <<>> /\ out["b"] # <<>>

\* thread t is at a call of isOpen() on the pipe it reads
AtIsOpen(t) ==
    \/ role(t) = "reader" /\ pc[t] = "isOpen"
    \/ role(t) \in {"stage", "voidstage", "consumer"} /\ input(t) # NullPipe /\ pc[t] = "test"

\* the step in which that call returns
IsOpenReturns(t) == AtIsOpen(t) /\ pc'[t] # pc[t]

\* C11: a completed isOpen() leaves both cursors and every slot as they were,
\* whatever it returns, and what it returned is still what the slot under the
\* read cursor holds.
C11_IsOpenPeek ==
    [][\A t \in Threads :
          IsOpenReturns(t) =>
              /\ fifo_' = fifo_ /\ read_' = read_ /\ write_' = write_
              /\ ret'[t].open = IsEngaged(fifo_'[input(t)][read_'[input(t)]])
              /\ readHeadroom(input(t))' = readHeadroom(input(t))]_vars

\* two readers have both looked at the same single entry
C11_Witness ==
    /\ TwoReaders
    /\ pc["a"] = "dequeue" /\ pc["b"] = "dequeue"
    /\ ret["a"].open /\ ret["b"].open
    /\ Live(1) = 1

\* a step of thread t inside a query made after t saw the end of the stream:
\* the query returns (probes grows) or waits on readyForRead_
RequeryStep(t) ==
    /\ role(t) \in {"reader", "consumer"} /\ pc[t] = "done"
    /\ probes[t] = <<>>
    /\ t \notin readyForRead_[input(t)]
    /\ \/ probes'[t] # probes[t]
       \/ t \in readyForRead_'[input(t)]

\* a dequeue() has been issued on pipe p after its end was observable: the
\* only entry such a call can take out is the sentinel
SentinelTaken(p) == \E i \in DOMAIN removed[p] : ~IsEngaged(removed[p][i])

\* C12: a reader that has observed isOpen() false and asks again gets the end
\* of the stream at once, without waiting and without a value, provided no
\* dequeue() took the sentinel out after the end was observed.  The query
\* leaves the pipe as it was, so the same holds for every query after it.
C12_EndStable ==
    [][\A t \in Threads :
          (RequeryStep(t) /\ ~SentinelTaken(input(t))) =>
              /\ probes'[t] = Append(probes[t], TRUE)
              /\ ~stalled'[t]
              /\ UNCHANGED <<pipeVars, cvVars, histVars>>]_vars

C12_Witness ==
    /\ SingleReader /\ vals # <<>>
    /\ returned[1] = vals
    /\ probes["a"] = <<TRUE>>
    /\ ~SentinelTaken(1)

\* no call on any pipe has returned and no thread has moved
NothingRan ==
    /\ \A t \in Threads : ~ret[t].done /\ pc[t] = InitialPc(t) /\ out[t] = <<>>
    /\ \A p \in Pipes : written[p] = <<>> /\ removed[p] = <<>>

\* C13: a Pipe constructed with fifoSize 0 or 1 fails the constructor's
\* assertion, so the program ends there and no call on the pipe is ever made;
\* with fifoSize >= 2 construction succeeds with fifoSize empty slots, both
\* cursors at 0 and nothing to read, and the pipe then carries values.
C13_CapacityMinimum ==
    \A p \in Pipes :
        /\ size(p) < MinFifoSize => aborted /\ NothingRan
        /\ (size(p) >= MinFifoSize /\ written[p] = <<>>) =>
              /\ write_[p] = 0 /\ read_[p] = 0
              /\ readHeadroom(p) = 0 /\ writeHeadroom(p) = size(p) - 1
              /\ \A i \in DOMAIN fifo_[p] : ~IsEngaged(fifo_[p][i])
        /\ ((\A q \in Pipes : size(q) >= MinFifoSize) /\ NothingRan) => ~aborted

C13_Witness ==
    /\ scenario = "pipe" /\ size(1) = 1 /\ vals # <<>>
    /\ aborted /\ NothingRan

\* the next query on pipe p reports the end of the stream: the entry under
\* the read cursor is the sentinel
AtEnd(p) == readHeadroom(p) > 0 /\ ~IsEngaged(fifo_[p][read_[p]])

ComparesSinks(t) == same[t] = <<>> /\ same'[t] # <<>>

\* C14: comparing two Sinks bound to different pipes gives true when both
\* pipes are at the end of their streams and false otherwise.
C14_SinkEquality ==
    [][\A t \in Threads :
          ComparesSinks(t) => same'[t] = <<AtEnd(output("w2")) /\ AtEnd(output("w1"))>>]_vars

\* what the code does: the comparison of two Sinks on different pipes is false
\* in every state, and makes no call on either pipe
C14_AlwaysFalse ==
    [][\A t \in Threads :
          ComparesSinks(t) => same'[t] = <<FALSE>> /\ UNCHANGED <<pipeVars, cvVars>>]_vars

C14_BothAtEnd ==
    /\ scenario = "connect" /\ vals # <<>>
    /\ AtEnd(1) /\ AtEnd(2)
    /\ same["main"] = <<FALSE>>

\* a stage whose Sink nobody reads, fed by at least as many elements as its
\* pipe has slots
Abandoned == scenario = "abandon" /\ Len(vals) >= size(output("w1"))

BlockedInPush(t) ==
    /\ pc[t] = "enqueue" /\ stalled[t]
    /\ Len(written[output(t)]) = size(output(t)) - 1

\* C15: when nobody dequeues from the output pipe of a stage and the source
\* has at least capacity elements, the worker writes capacity - 1 entries,
\* then stays blocked in the next enqueue() for ever: it never finishes and
\* never writes the sentinel.
C15_AbandonedOutput ==
    /\ [](Abandoned =>
            /\ Len(written[output("w1")]) <= size(output("w1")) - 1
            /\ \A i \in DOMAIN written[output("w1")] : IsEngaged(written[output("w1")][i])
            /\ pc["w1"] \notin {"close", "done"})
    /\ (Abandoned ~> [](BlockedInPush("w1")))

C15_Witness ==
    /\ Abandoned
    /\ BlockedInPush("w1")
    /\ "w1" \in readyForWrite_[output("w1")]
    /\ written[output("w1")] = <<Some(Times2(vals[1]))>>

\* the values a pipeline delivers at its end, function after function
RECURSIVE Through(_, _)
Through(funcs, x) ==
    IF funcs = <<>> THEN x
    ELSE Through(Tail(funcs),
                 CASE Head(funcs) = "Times2" -> Times2(x)
                   [] Head(funcs) = "Label" -> Label(x)
                   [] Head(funcs) = "getFirstChar" -> getFirstChar(x)
                   [] OTHER -> x)

Finished == \A t \in Threads : role(t) # "unused" => pc[t] = "done"

\* C16: connect(source, f1, ..., fn), connect(connect(source, f1), f2, ..., fn)
\* and source >> f1 >> ... >> fn create the same workers and pipes, one worker
\* per function and one pipe per value-returning function, wired in the order
\* of the functions; the run of that wiring delivers f_n(...f_1(x)) for every
\* source element x, in order.
C16_FormsEquivalent ==
    Funcs(scenario) # <<>> =>
        /\ \A form \in Forms : Compose(form, Source, Funcs(scenario)) = wiring
        /\ Len(wiring.stages) = Len(Funcs(scenario))
        /\ wiring.pipes = Cardinality({i \in DOMAIN Funcs(scenario) : ~IsVoid(Funcs(scenario)[i])})
        /\ \A i \in DOMAIN wiring.stages :
              /\ wiring.stages[i].fn = Funcs(scenario)[i]
              /\ wiring.stages[i].in = IF i = 1 THEN NullPipe ELSE wiring.stages[i - 1].out
              /\ wiring.stages[i].out = IF IsVoid(Funcs(scenario)[i]) THEN NullPipe ELSE i
        /\ (Finished /\ scenario # "abandon") =>
              LET last == IF wiring.result.kind = "future" THEN "w2" ELSE "main"
              IN  out[last] = [i \in 1..Len(vals) |-> Through(Funcs(scenario), vals[i])]

C16_Witness ==
    /\ scenario = "connect" /\ Len(vals) = MaxN
    /\ wiring = shift_all(Source, <<"Times2", "Label">>)
    /\ wiring = connect_variadic(connect(Source, "Times2"), <<"Label">>)
    /\ Finished
    /\ out["main"] = [i \in 1..Len(vals) |-> Label(Times2(vals[i]))]

\* a step of thread t that runs isOpen() on its input pipe: it returns, or
\* it waits on readyForRead_
IsOpenStep(t) ==
    \/ /\ AtIsOpen(t) /\ t \notin readyForRead_[input(t)]
       /\ (pc'[t] # pc[t] \/ t \in readyForRead_'[input(t)])
    \/ RequeryStep(t)

\* C17: once the sentinel of a pipe has been dequeued, every later isOpen()
\* on that pipe, by any reader, returns false.
C17_ClosedPermanent ==
    [][\A t \in Threads :
          (IsOpenStep(t) /\ SentinelTaken(input(t))) =>
              ret'[t].done /\ ~ret'[t].open]_vars

\* what the code does: after the sentinel has been dequeued isOpen() never
\* returns false; it waits on readyForRead_ while the pipe is empty, and
\* returns true when a value was enqueued after close()
C17_WaitsAfterSentinel ==
    [][\A t \in Threads :
          (IsOpenStep(t) /\ SentinelTaken(input(t))) =>
              IF readHeadroom(input(t)) = 0
              THEN ~ret'[t].done /\ stalled'[t] /\ t \in readyForRead_'[input(t)]
              ELSE /\ ret'[t].done /\ ret'[t].open
                   /\ fifo_[input(t)][read_[input(t)]] = Some(LateValue)]_vars

C17_SentinelGone ==
    /\ TwoReaders /\ ~aborted
    /\ SentinelTaken(1)
    /\ \E t \in {"a", "b"} : pc[t] = "isOpen" /\ stalled[t] /\ t \in readyForRead_[1]

\* the source elements the worker t has taken so far
Taken(t) ==
    IF input(t) = NullPipe THEN SubSeq(vals, 1, idx[t] - 1) ELSE returned[input(t)]

\* the worker's for loop has seen the end of its input
Exhausted(t) ==
    IF input(t) = NullPipe
    THEN idx[t] = Len(vals) + 1
    ELSE /\ AtEnd(input(t))
         /\ Len(returned[input(t)]) = Len(UpToSentinel(written[input(t)]))

\* C18: each connect with a value-returning function has one worker and one
\* pipe of capacity 2 of its own; the worker enqueues f(e) once per element it
\* took from its source, in order, closes exactly once, only when the source
\* is exhausted and its last enqueue has returned, and enqueues nothing after
\* the sentinel.
C18_StageProtocol ==
    \A t \in Threads :
        role(t) = "stage" =>
            LET p  == output(t)
                w  == written[p]
                vw == UpToSentinel(w)
            IN  /\ size(p) = DefaultFifoSize
                /\ \A u \in Threads \ {t} : output(u) # p
                /\ Len(vw) \in {Len(Taken(t)) - 1, Len(Taken(t))}
                /\ vw = [i \in 1..Len(vw) |-> Some(func(t, Taken(t)[i]))]
                /\ Len(vw) < Len(Taken(t)) => pc[t] = "enqueue"
                /\ w \in {vw, Append(vw, None)}
                /\ w # vw => pc[t] = "done" /\ Len(vw) = Len(Taken(t)) /\ Exhausted(t)
                /\ pc[t] = "done" => w = Append(vw, None)

C18_Witness ==
    /\ scenario = "connect" /\ Len(vals) = MaxN
    /\ pc["w1"] = "done" /\ pc["w2"] = "done"
    /\ written[1] = [i \in 1..(MaxN + 1) |-> IF i <= MaxN THEN Some(Times2(vals[i])) ELSE None]
    /\ written[2] = [i \in 1..(MaxN + 1) |-> IF i <= MaxN THEN Some(Label(Times2(vals[i]))) ELSE None]

\* reader t got true from isOpen() and is on its way into, or inside,
\* dequeue(), and the other reader has meanwhile taken the last value: no
\* value is left in the pipe and none will be enqueued
Loser(t) ==
    /\ TwoReaders /\ ~aborted
    /\ role(t) = "reader" /\ pc[t] = "dequeue"
    /\ vals # <<>>
    /\ removed[1] = [i \in 1..Len(vals) |-> Some(vals[i])]

Closed(p) == \E i \in DOMAIN written[p] : ~IsEngaged(written[p][i])

Piped == scenario \in {"connect", "void"}

\* every worker has finished, every pipe was closed and every value in it
\* dequeued, and the caller has seen the end of the stream (or wait() returned)
Completed ==
    /\ Finished
    /\ FutureReady
    /\ \A t \in Threads :
          role(t) = "stage" =>
              /\ written[output(t)] = Append(removed[output(t)], None)
              /\ Len(removed[output(t)]) = Len(vals)
              /\ \A i \in DOMAIN removed[output(t)] : IsEngaged(removed[output(t)][i])
              /\ AtEnd(output(t))

\* thread t has work left and is not waiting for another thread
Active(t) ==
    /\ role(t) # "unused" /\ pc[t] # "done"
    /\ Runnable(t)
    /\ role(t) = "waiter" => FutureReady

\* C20: a pipeline over a finite source whose end a single consumer drains
\* (or awaits) never reaches a state in which every unfinished thread waits,
\* and under fair scheduling it completes: all workers finish, all pipes are
\* closed and drained, and the consumer sees the end of the stream (or its
\* wait() returns).
C20_PipelineCompletes ==
    /\ []((Piped /\ ~Finished) => \E t \in Threads : Active(t))
    /\ [](Piped => ~aborted)
    /\ (Piped ~> Completed)

C20_Witness ==
    /\ scenario = "void" /\ Len(vals) = MaxN
    /\ Completed
    /\ out["w2"] = FirstChars
    /\ removed[1] = [i \in 1..MaxN |-> Some(getFirstChar(vals[i]))]

\* the test pipe whose producer goes on enqueueing after close()
LateSingle == scenario = "late" /\ nReaders = 1 /\ Pipe_assert(size(1))
LateTwo == scenario = "late" /\ nReaders = 2 /\ Pipe_assert(size(1))

\* a step of the producer inside an enqueue() issued after close(): the call
\* returns, or it waits on readyForWrite_
LateStep(t) ==
    /\ scenario = "late" /\ role(t) = "producer" /\ pc[t] = "late"
    /\ t \notin readyForWrite_[output(t)]
    /\ (late' # late \/ t \in readyForWrite_'[output(t)])

\* C21 as claimed (its second part): no value enqueued after close() is ever
\* returned to a reader that calls isOpen() before every dequeue(), as the
\* readers of the test do.
C21_LateNeverDelivered ==
    scenario = "late" =>
        \A i \in DOMAIN returned[1] : returned[1][i] # LateValue

\* C21 as the code has it: an enqueue() after close() is carried out like any
\* other (stored at the write cursor, cursor advanced) whenever a slot is free.
\* While the sentinel stays in the pipe no such value is returned to a reader,
\* and with a single reader the sentinel stays; once the sentinel is under the
\* read cursor and capacity - 1 entries are buffered (the sentinel and
\* capacity - 2 later values) the next enqueue() never returns.  With two
\* readers a racing dequeue() can take the sentinel out, and the values
\* enqueued after close() are then delivered.
C21_LateAccepted ==
    /\ [](scenario = "late" =>
            /\ ~SentinelTaken(1) => \A i \in DOMAIN returned[1] : returned[1][i] # LateValue
            /\ LateSingle => ~SentinelTaken(1) /\ ~aborted
            /\ (LateSingle /\ late > 0) => Live(1) >= late + 1)
    /\ [][\A t \in Threads :
            LateStep(t) =>
                IF writeHeadroom(output(t)) > 0
                THEN /\ late' = late + 1
                     /\ fifo_'[output(t)][write_[output(t)]] = Some(LateValue)
                     /\ write_'[output(t)] = (write_[output(t)] + 1) % size(output(t))
                     /\ written'[output(t)] = Append(written[output(t)], Some(LateValue))
                     /\ ~aborted'
                ELSE /\ late' = late /\ pc'[t] = "late" /\ stalled'[t]
                     /\ UNCHANGED pipeVars]_vars
    /\ [][(LateSingle /\ pc["main"] = "late" /\ AtEnd(1) /\ writeHeadroom(1) = 0) =>
            /\ pc'["main"] = "late" /\ late' = late
            /\ AtEnd(1)' /\ writeHeadroom(1)' = 0
            /\ Live(1)' = size(1) - 1]_vars

C21_Witness ==
    /\ LateSingle /\ size(1) = MaxCap /\ vals # <<>>
    /\ out["a"] = vals /\ pc["a"] = "done"
    /\ late = MaxCap - 2
    /\ pc["main"] = "late" /\ stalled["main"] /\ "main" \in readyForWrite_[1]
    /\ AtEnd(1) /\ Live(1) = size(1) - 1

\* two readers: the sentinel was taken out and a value enqueued after close()
\* has been returned
C21_LateDelivered ==
    /\ LateTwo /\ ~aborted
    /\ SentinelTaken(1)
    /\ \E i \in DOMAIN returned[1] : returned[1][i] = LateValue

\* C22: in every reachable state of a constructed pipe of capacity C both
\* cursors lie in 0..C-1, writeHeadroom() + readHeadroom() = C - 1, and
\* readHeadroom() is the number of completed enqueue() and close() calls minus
\* the number of completed dequeue() calls; no step changes the capacity.
C22_CursorAccounting ==
    /\ [](\A p \in Pipes :
            Pipe_assert(size(p)) =>
                /\ write_[p] \in 0..(size(p) - 1)
                /\ read_[p] \in 0..(size(p) - 1)
                /\ writeHeadroom(p) + readHeadroom(p) = size(p) - 1
                /\ readHeadroom(p) = Len(written[p]) - Len(removed[p])
                /\ writeHeadroom(p) >= 0)
    /\ [][\A p \in Pipes : size(p)' = size(p) /\ DOMAIN fifo_'[p] = DOMAIN fifo_[p]]_vars

C22_Witness ==
    /\ scenario = "pipe" /\ size(1) = MaxCap
    /\ write_[1] < read_[1]
    /\ readHeadroom(1) = MaxCap - 1 /\ writeHeadroom(1) = 0
    /\ Len(removed[1]) > 0
============================================================================
